---- MODULE Spec2Model ----
(***************************************************************************)
(* Model of backend/app.py: the per-task EZKL pipeline (run_pipeline_async *)
(* driven by post_model), the status file written by update_status /       *)
(* save_json, the two chain submissions (deploy_verifier_contract and      *)
(* register_model_onchain) and the two read endpoints (get_status and      *)
(* get_artifact); and, called on their own, task_paths, the accuracy       *)
(* scaling of register_model_onchain and the accuracy derivation           *)
(* (build_label_index_map, extract_prediction).                            *)
(***************************************************************************)
EXTENDS Integers, Sequences, FiniteSets, TLC

\* ------------------------------------------------------------------ bounds

\* Total number of POST /models requests accepted in one behaviour.
MaxRuns == 2

\* ------------------------------------------------------- paths (os.path)

\* A path is a sequence of segments; an absolute path starts with "/".
TaskIds == {"t1", "t2"}

\* APP_ROOT, app.py line 19 (here /srv/artifacts).
APP_ROOT == <<"/", "srv", "artifacts">>

IsAbs(p) == Len(p) > 0 /\ p[1] = "/"

\* os.path.join(a, b): an absolute b discards a.
PathJoin(a, b) == IF IsAbs(b) THEN b ELSE a \o b

\* What the operating system opens for a path: ".." steps to the parent
\* (the parent of the root is the root).
RECURSIVE Normalize(_, _)
Normalize(done, rest) ==
    IF rest = <<>> THEN done
    ELSE IF rest[1] = ".."
         THEN Normalize(IF Len(done) > 1 THEN SubSeq(done, 1, Len(done) - 1) ELSE done,
                        Tail(rest))
         ELSE Normalize(Append(done, rest[1]), Tail(rest))

RealPath(p) == Normalize(<<>>, p)

IsPrefix(a, b) == Len(a) <= Len(b) /\ SubSeq(b, 1, Len(a)) = a

\* File names of task_paths, app.py lines 45-57, by role.
Roles == {"model", "settings", "calibration", "compiled", "srs", "witness", "input",
          "pk", "vk", "proof", "status", "verifier_sol", "verifier_abi"}

FileName(role) ==
    CASE role = "model" -> "network.onnx"
      [] role = "settings" -> "settings.json"
      [] role = "calibration" -> "calibration.json"
      [] role = "compiled" -> "network.ezkl"
      [] role = "srs" -> "kzg.srs"
      [] role = "witness" -> "witness.json"
      [] role = "input" -> "input.json"
      [] role = "pk" -> "test.pk"
      [] role = "vk" -> "test.vk"
      [] role = "proof" -> "test.pf"
      [] role = "status" -> "status.json"
      [] role = "verifier_sol" -> "Verifier.sol"
      [] role = "verifier_abi" -> "Verifier.abi"

ArtifactRoles == Roles \ {"status"}

\* Task ids a POST /models form can carry besides the plain names: the form
\* value is any string.
RequestIds == TaskIds \cup {"t1/", "t2/../t1", "/srv/artifacts/t1", "../artifacts/t2"}

\* The path components of a task id, as os.path.join and the system read it.
Segments(task_id) ==
    CASE task_id = "t1/" -> <<"t1">>
      [] task_id = "t2/../t1" -> <<"t2", "..", "t1">>
      [] task_id = "/srv/artifacts/t1" -> <<"/", "srv", "artifacts", "t1">>
      [] task_id = "../artifacts/t2" -> <<"..", "artifacts", "t2">>
      [] OTHER -> <<task_id>>

\* task_paths(task_id): base and the path of every role.
TaskBase(task_id) == PathJoin(APP_ROOT, Segments(task_id))

task_paths(task_id) ==
    [role \in Roles \cup {"base"} |->
        IF role = "base" THEN TaskBase(task_id)
        ELSE PathJoin(TaskBase(task_id), <<FileName(role)>>)]

\* ------------------------------------------------------------ the stages

\* The stage sequence of run_pipeline_async: the step and message handed to
\* update_status before the stage operation, and the artifacts it writes.
Stages == <<
    [name |-> "store-model",     step |-> "started",         message |-> "Storing model",
     outs |-> {"model"}],
    [name |-> "prepare-input",   step |-> "input",           message |-> "Preparing validation input",
     outs |-> {"input"}],
    [name |-> "gen_settings",    step |-> "settings",        message |-> "Generating settings",
     outs |-> {"settings"}],
    [name |-> "build-calibration", step |-> "calibration",   message |-> "Building calibration set",
     outs |-> {"calibration"}],
    [name |-> "calibrate_settings", step |-> "calibration",  message |-> "Running ezkl.calibrate_settings",
     outs |-> {"settings"}],
    [name |-> "compile_circuit", step |-> "compile",         message |-> "Compiling circuit",
     outs |-> {"compiled"}],
    [name |-> "get_srs",         step |-> "srs",             message |-> "Fetching SRS",
     outs |-> {"srs"}],
    [name |-> "gen_witness",     step |-> "witness",         message |-> "Generating witness",
     outs |-> {"witness"}],
    [name |-> "setup",           step |-> "setup",           message |-> "Running setup",
     outs |-> {"vk", "pk"}],
    [name |-> "prove",           step |-> "prove",           message |-> "Generating proof",
     outs |-> {"proof"}],
    [name |-> "verify",          step |-> "verify",          message |-> "Verifying proof",
     outs |-> {}],
    [name |-> "create_evm_verifier", step |-> "verifier",    message |-> "Exporting EVM verifier",
     outs |-> {"verifier_sol", "verifier_abi"}],
    [name |-> "deploy",          step |-> "verifier_deploy", message |-> "Deploying verifier contract",
     outs |-> {}],
    [name |-> "register",        step |-> "register",        message |-> "Registering model on-chain",
     outs |-> {}] >>

\* Stage indices; two further positions write the terminal status records.
ProvingStages == 1 .. 12
StDeploy == 13
StRegister == 14
StComplete == 15
StFailed == 16

SkipRegisterMessage == "Skipping on-chain registration (no verifier deployment)"

\* str(exc) of an exception raised inside a library call (ezkl, pandas, web3,
\* the upload stream): whatever text the exception carries, which for an
\* exception built without arguments is the empty string.
LibraryMessages == {"", "library error"}

\* ------------------------------------------------------------------ state

VARIABLES
    cfg,      \* process-wide configuration read at import (lines 22-25)
    pc,       \* per task: position of its POST /models request
    loc,      \* per task: locals of the request in flight
    status,   \* per task: content of <base>/status.json
    written,  \* per task: the record of the last completed update_status call
    files,    \* per task, per artifact role: number of the run that wrote it (0: no file)
    gen,      \* per task: number of runs started
    result,   \* per task: response of the last finished POST /models
    trace,    \* per task: status writes, stage operations and broadcasts of the latest run
    chain,    \* the chain node: confirmed transaction count of the account, mempool
    resp,     \* response of a GET request, until the next step of the system
    dirs,     \* the directories os.makedirs has created, as the system resolves them
    call      \* a function of the module called on its own: arguments and return value

vars == <<cfg, pc, loc, status, written, files, gen, result, trace, chain, resp, dirs, call>>

Idle == [st |-> 0, ph |-> "idle"]

NoLocals == [vaddr |-> FALSE, dtx |-> FALSE, rtx |-> FALSE, raised |-> FALSE, msg |-> "",
             nonce |-> -1, envFault |-> FALSE, addr |-> 0, verification |-> "none"]

NoFile == [kind |-> "absent", step |-> "", message |-> "", hasError |-> FALSE, error |-> ""]

\* status.json between open(path, "w") and the flush of json.dump at close.
EmptyFile == [kind |-> "empty", step |-> "", message |-> "", hasError |-> FALSE, error |-> ""]

NoResult == [code |-> 0, verifier_contract |-> FALSE, verifier_deploy_tx |-> FALSE,
             tx_hash |-> FALSE, error |-> ""]

NoResp == [kind |-> "none", task_id |-> "", code |-> 0, body |-> NoFile, path |-> <<>>, data |-> 0,
           error |-> ""]

NoCall == [fn |-> "none", arg |-> <<>>, done |-> TRUE, ret |-> <<>>]

\* The file next to the application that load_dotenv reads: it holds the signing key.
EnvFile == <<"/", "srv", ".env">>

ChainEnabled == cfg.provider /\ cfg.key

TotalRuns == gen["t1"] + gen["t2"]

InFlight(t) == pc[t].ph # "idle"

Configs == [provider : BOOLEAN, key : BOOLEAN, registry : BOOLEAN]

InitSystem(configs) ==
    /\ cfg \in configs
    /\ pc = [t \in TaskIds |-> Idle]
    /\ loc = [t \in TaskIds |-> NoLocals]
    /\ status = [t \in TaskIds |-> NoFile]
    /\ written = [t \in TaskIds |-> NoFile]
    /\ files = [t \in TaskIds |-> [r \in ArtifactRoles |-> 0]]
    /\ gen = [t \in TaskIds |-> 0]
    /\ result = [t \in TaskIds |-> NoResult]
    /\ trace = [t \in TaskIds |-> <<>>]
    /\ chain = [count |-> 0, pending |-> {}, contracts |-> {}]
    /\ resp = NoResp
    /\ dirs = {}

InitWith(configs) == InitSystem(configs) /\ call = NoCall

Init == InitWith(Configs)

\* ------------------------------------------------------- the file system

\* Every file the pipeline can create, by the path the system resolves it to.
KnownFiles ==
    {[real |-> RealPath(task_paths(t)[r]), task |-> t, role |-> r] : t \in TaskIds, r \in Roles}

\* os.path.isfile and the content read, for the path as the system resolves it.
FileAt(path) ==
    LET rp == RealPath(path)
        known == {k \in KnownFiles : k.real = rp} IN
    IF rp = EnvFile THEN [isfile |-> TRUE, real |-> rp, data |-> 0, body |-> NoFile]
    ELSE IF known # {}
    THEN LET k == CHOOSE k \in known : TRUE IN
         IF k.role = "status"
         THEN [isfile |-> status[k.task].kind # "absent", real |-> rp, data |-> 0,
               body |-> status[k.task]]
         ELSE [isfile |-> files[k.task][k.role] # 0, real |-> rp,
               data |-> files[k.task][k.role], body |-> NoFile]
    ELSE [isfile |-> FALSE, real |-> rp, data |-> 0, body |-> NoFile]

\* os.makedirs(path, exist_ok): creates the directory and its missing
\* parents; raises FileExistsError when the path exists, unless it is a
\* directory and exist_ok is set.
makedirs(path, exist_ok) ==
    LET rp == RealPath(path) IN
    IF FileAt(path).isfile \/ (rp \in dirs /\ ~exist_ok)
    THEN [ok |-> FALSE, dirs |-> dirs]
    ELSE [ok |-> TRUE, dirs |-> dirs \cup {RealPath(SubSeq(path, 1, n)) : n \in 1 .. Len(path)}]

\* ensure_dir on a plain os.makedirs(path).
ensure_dirStrict(path) == makedirs(path, FALSE)

\* ensure_dir, lines 34-36.
ensure_dir(path) == makedirs(path, TRUE)

\* ---------------------------------------------------------- update_status

\* The record update_status is called with at position st of the run.
StatusRecord(st, l) ==
    IF st = StFailed
    THEN [kind |-> "full", step |-> "failed", message |-> "Pipeline error",
          hasError |-> TRUE, error |-> l.msg]
    ELSE IF st = StComplete
    THEN [kind |-> "full", step |-> "complete", message |-> "Pipeline finished",
          hasError |-> FALSE, error |-> ""]
    ELSE [kind |-> "full", step |-> Stages[st].step,
          message |-> IF st = StRegister /\ ~l.vaddr THEN SkipRegisterMessage
                      ELSE Stages[st].message,
          hasError |-> FALSE, error |-> ""]

\* AfterStatus with "complete" recorded only on the registering branch.
AfterStatusNoComplete(st, l) ==
    IF st \in {StComplete, StFailed} THEN [st |-> st, ph |-> "ret"]
    ELSE IF st = StRegister /\ ~l.vaddr THEN [st |-> StComplete, ph |-> "ret"]
    ELSE [st |-> st, ph |-> "op"]

\* Where the run continues once update_status has returned.
AfterStatus(st, l) ==
    IF st \in {StComplete, StFailed} THEN [st |-> st, ph |-> "ret"]
    ELSE IF st = StRegister /\ ~l.vaddr THEN [st |-> StComplete, ph |-> "open"]
    ELSE [st |-> st, ph |-> "op"]

Event(kind, name, msg) == [kind |-> kind, name |-> name, msg |-> msg]

\* save_json, first half: open(path, "w") truncates the file.
StatusOpen(t) ==
    /\ pc[t].ph = "open"
    /\ status' = [status EXCEPT ![t] = EmptyFile]
    /\ pc' = [pc EXCEPT ![t].ph = "dump"]
    /\ resp' = NoResp
    /\ UNCHANGED <<cfg, dirs, call, loc, written, files, gen, result, trace, chain>>

\* save_json, second half: json.dump and the close that flushes it.
StatusDump(t) ==
    /\ pc[t].ph = "dump"
    /\ LET rec == StatusRecord(pc[t].st, loc[t]) IN
        /\ status' = [status EXCEPT ![t] = rec]
        /\ written' = [written EXCEPT ![t] = rec]
        /\ trace' = [trace EXCEPT ![t] = Append(@, Event("status", rec.step, rec.message))]
    /\ pc' = [pc EXCEPT ![t] = AfterStatus(pc[t].st, loc[t])]
    /\ resp' = NoResp
    /\ UNCHANGED <<cfg, dirs, call, loc, files, gen, result, chain>>

\* ------------------------------------------------------- stage operations

\* An exception leaves run_pipeline_async and run_pipeline; the handler of
\* post_model (lines 429-432) records it.
Raised(l, m, env) == [l EXCEPT !.raised = TRUE, !.msg = m, !.envFault = @ \/ env]

\* A handler that answers 500 without recording the failure.
HandlerNoStatus == [st |-> StFailed, ph |-> "ret"]

\* Lines 429-432: task_paths, update_status("failed", ...), then the 500.
Handler == [st |-> StFailed, ph |-> "open"]

\* str(exc) of the OSError that open, json.dump or the close of the status
\* file raises.
IOMessage == "[Errno 28] No space left on device"

\* The body of the framework's answer to an exception that leaves post_model.
UnhandledMessage == "Internal Server Error"

\* save_json raising: at open(path, "w") (line 89) the file is as it was, at
\* json.dump or the close (line 90) it stays truncated. Inside
\* run_pipeline_async the exception reaches the handler of post_model like any
\* other; inside the handler (line 431) nothing catches it, it leaves
\* post_model and the framework answers 500 on its own.
StatusWriteFails(t) ==
    /\ pc[t].ph \in {"open", "dump"}
    /\ IF pc[t].st # StFailed
       THEN /\ loc' = [loc EXCEPT ![t] = Raised(@, IOMessage, TRUE)]
            /\ pc' = [pc EXCEPT ![t] = Handler]
            /\ result' = result
       ELSE /\ loc' = loc
            /\ pc' = [pc EXCEPT ![t] = Idle]
            /\ result' = [result EXCEPT ![t] =
                            [NoResult EXCEPT !.code = 500, !.error = UnhandledMessage]]
    /\ resp' = NoResp
    /\ UNCHANGED <<cfg, dirs, call, status, written, files, gen, trace, chain>>

\* NextStage with the verify stage left out.
NextStageWithoutVerify(st) ==
    IF st < 12 THEN (IF Stages[st + 1].name = "verify" THEN st + 2 ELSE st + 1)
    ELSE IF ChainEnabled THEN StDeploy ELSE StRegister

\* The position after proving stage st returned.
NextStage(st) ==
    IF st < 12 THEN st + 1
    ELSE IF ChainEnabled THEN StDeploy ELSE StRegister

\* What ezkl.verify returns when it does not raise (line 346); the value is
\* kept in verification_result and nothing reads it before line 389.
VerifyOutcomes(st) == IF Stages[st].name = "verify" THEN {"true", "false"} ELSE {"none"}

\* One of the twelve proving stages: the operation writes its artifacts and
\* returns, or a library call in it raises.
StageOp(t) ==
    /\ pc[t].ph = "op"
    /\ pc[t].st \in ProvingStages
    /\ LET st == pc[t].st IN
       \/ /\ files' = [files EXCEPT ![t] =
                          [r \in ArtifactRoles |-> IF r \in Stages[st].outs THEN gen[t] ELSE @[r]]]
          /\ trace' = [trace EXCEPT ![t] = Append(@, Event("op", Stages[st].name, "returned"))]
          /\ pc' = [pc EXCEPT ![t] = [st |-> NextStage(st), ph |-> "open"]]
          /\ \E outcome \in VerifyOutcomes(st) :
                loc' = IF outcome = "none" THEN loc
                       ELSE [loc EXCEPT ![t].verification = outcome]
       \/ \E m \in LibraryMessages :
          /\ loc' = [loc EXCEPT ![t] = Raised(@, m, TRUE)]
          /\ trace' = [trace EXCEPT ![t] = Append(@, Event("op", Stages[st].name, "raised"))]
          /\ pc' = [pc EXCEPT ![t] = Handler]
          /\ files' = files
    /\ resp' = NoResp
    /\ UNCHANGED <<cfg, dirs, call, status, written, gen, result, chain>>

\* ----------------------------------------------------- chain submissions

\* Lines 184-193 and 256-277: the transaction built from the function's
\* arguments; the registration carries verifier_address (line 263).
Tx(t, st) ==
    [task |-> t, kind |-> Stages[st].name, nonce |-> loc[t].nonce,
     verifier |-> IF st = StRegister THEN loc[t].addr ELSE 0]

\* Line 201: receipt.contractAddress, which the chain derives from the sender
\* and the nonce of the creating transaction; never the null address 0.
ContractAddress(tx) == tx.nonce + 1

\* The node after tx is mined: the nonce is used, and a successful creation
\* leaves a contract at the receipt's address.
Mined(tx, ok) ==
    [count |-> chain.count + 1,
     pending |-> chain.pending \ {tx},
     contracts |-> IF ok /\ tx.kind = "deploy"
                   THEN chain.contracts \cup {[addr |-> ContractAddress(tx), task |-> tx.task]}
                   ELSE chain.contracts]

\* The node's answer to send_raw_transaction: a nonce below the confirmed
\* count is refused, and so is a second transaction with the nonce and the
\* fees of one already pending.
NodeRefusal(tx) ==
    IF tx.nonce < chain.count THEN "nonce too low"
    ELSE IF \E p \in chain.pending : p.nonce = tx.nonce
         THEN "replacement transaction underpriced"
         ELSE ""

\* Lines 167-193 and 232-277: the checks and library calls before signing, and
\* build_transaction with nonce = get_transaction_count(account.address).
SubmitBuild(t, st) ==
    \/ /\ loc' = [loc EXCEPT ![t].nonce = chain.count]
       /\ pc' = [pc EXCEPT ![t].ph = "send"]
       /\ trace' = [trace EXCEPT ![t] = Append(@, Event("tx", Stages[st].name, "nonce"))]
    \/ \E m \in LibraryMessages :
       /\ loc' = [loc EXCEPT ![t] = Raised(@, m, TRUE)]
       /\ trace' = [trace EXCEPT ![t] = Append(@, Event("op", Stages[st].name, "raised"))]
       /\ pc' = [pc EXCEPT ![t] = Handler]

\* Lines 195-196 and 279-280: sign_transaction and send_raw_transaction.
SubmitSend(t, st) ==
    /\ pc[t] = [st |-> st, ph |-> "send"]
    /\ LET tx == Tx(t, st)
           refusal == NodeRefusal(tx) IN
       \/ IF refusal = ""
          THEN /\ chain' = [chain EXCEPT !.pending = @ \cup {tx}]
               /\ trace' = [trace EXCEPT ![t] = Append(@, Event("tx", tx.kind, "broadcast"))]
               /\ pc' = [pc EXCEPT ![t].ph = "wait"]
               /\ loc' = loc
          ELSE /\ loc' = [loc EXCEPT ![t] = Raised(@, refusal, FALSE)]
               /\ trace' = [trace EXCEPT ![t] =
                              Append(Append(@, Event("tx", tx.kind, "refused")),
                                     Event("op", tx.kind, "raised"))]
               /\ pc' = [pc EXCEPT ![t] = Handler]
               /\ chain' = chain
       \/ \E m \in LibraryMessages :
          \* the endpoint is not reached: nothing is broadcast
          /\ loc' = [loc EXCEPT ![t] = Raised(@, m, TRUE)]
          /\ trace' = [trace EXCEPT ![t] = Append(@, Event("op", tx.kind, "raised"))]
          /\ pc' = [pc EXCEPT ![t] = Handler]
          /\ chain' = chain
    /\ resp' = NoResp
    /\ UNCHANGED <<cfg, dirs, call, status, written, files, gen, result>>

\* SubmitWait that never looks at receipt.status.
SubmitWaitIgnoringStatus(t, st, own, success) ==
    /\ pc[t] = [st |-> st, ph |-> "wait"]
    /\ Tx(t, st) \in chain.pending
    /\ Tx(t, st).nonce = chain.count
    /\ \E receipt \in {"receipt ok", "receipt failed"} :
          /\ chain' = Mined(Tx(t, st), receipt = "receipt ok")
          /\ loc' = [loc EXCEPT ![t] = success]
          /\ trace' = [trace EXCEPT ![t] =
                         Append(Append(@, Event("tx", Stages[st].name, receipt)),
                                Event("op", Stages[st].name, "returned"))]
          /\ pc' = [pc EXCEPT ![t] = [st |-> st + 1, ph |-> "open"]]
    /\ resp' = NoResp
    /\ UNCHANGED <<cfg, dirs, call, status, written, files, gen, result>>

\* Lines 197-199 and 281-283: wait_for_transaction_receipt returns once the
\* transaction is mined, which takes the account's next nonce; a receipt whose
\* status is not 1 raises own, and the nonce is used either way. (The wait is
\* taken to last until the receipt exists.)
SubmitWait(t, st, own, success) ==
    /\ pc[t] = [st |-> st, ph |-> "wait"]
    /\ Tx(t, st) \in chain.pending
    /\ Tx(t, st).nonce = chain.count
    /\ \/ /\ chain' = Mined(Tx(t, st), TRUE)
          /\ loc' = [loc EXCEPT ![t] = success]
          /\ trace' = [trace EXCEPT ![t] =
                         Append(Append(@, Event("tx", Stages[st].name, "receipt ok")),
                                Event("op", Stages[st].name, "returned"))]
          /\ pc' = [pc EXCEPT ![t] = [st |-> st + 1, ph |-> "open"]]
       \/ /\ chain' = Mined(Tx(t, st), FALSE)
          /\ loc' = [loc EXCEPT ![t] = Raised(@, own, TRUE)]
          /\ trace' = [trace EXCEPT ![t] =
                         Append(Append(@, Event("tx", Stages[st].name, "receipt failed")),
                                Event("op", Stages[st].name, "raised"))]
          /\ pc' = [pc EXCEPT ![t] = Handler]
    /\ resp' = NoResp
    /\ UNCHANGED <<cfg, dirs, call, status, written, files, gen, result>>

\* deploy_verifier_contract, lines 160-193.
DeployBuild(t) ==
    /\ pc[t] = [st |-> StDeploy, ph |-> "op"]
    /\ IF ~(cfg.provider /\ cfg.key)
       THEN /\ pc' = [pc EXCEPT ![t] = [st |-> StRegister, ph |-> "open"]]
            /\ trace' = [trace EXCEPT ![t] = Append(@, Event("op", "deploy", "returned"))]
            /\ loc' = loc
       ELSE SubmitBuild(t, StDeploy)
    /\ resp' = NoResp
    /\ UNCHANGED <<cfg, dirs, call, status, written, files, gen, result, chain>>

DeploySend(t) == SubmitSend(t, StDeploy)

\* DeployWait that keeps the receipt's hash and drops its address.
DeployWaitWithoutAddress(t) ==
    SubmitWait(t, StDeploy, "Verifier deployment failed",
               [loc[t] EXCEPT !.vaddr = TRUE, !.dtx = TRUE])

\* Lines 197-204 and 362-364: the receipt's address and hash become
\* verifier_address and verifier_deploy_tx.
DeployWait(t) ==
    SubmitWait(t, StDeploy, "Verifier deployment failed",
               [loc[t] EXCEPT !.vaddr = TRUE, !.dtx = TRUE,
                              !.addr = ContractAddress(Tx(t, StDeploy))])

\* Line 227 without the registry address.
RegistrationConfiguredNoRegistry(l) == cfg.provider /\ cfg.key /\ l.vaddr

\* Line 227: GENERAL_CONTRACT_ADDRESS and WEB3_HTTP_PROVIDER and
\* WEB3_OPERATOR_KEY and verifier_address.
RegistrationConfigured(l) == cfg.registry /\ cfg.provider /\ cfg.key /\ l.vaddr

\* register_model_onchain, lines 219-277.
RegisterBuild(t) ==
    /\ pc[t] = [st |-> StRegister, ph |-> "op"]
    /\ IF ~RegistrationConfigured(loc[t])
       THEN /\ pc' = [pc EXCEPT ![t] = [st |-> StComplete, ph |-> "open"]]
            /\ trace' = [trace EXCEPT ![t] = Append(@, Event("op", "register", "returned"))]
            /\ loc' = loc
       ELSE SubmitBuild(t, StRegister)
    /\ resp' = NoResp
    /\ UNCHANGED <<cfg, dirs, call, status, written, files, gen, result, chain>>

RegisterSend(t) == SubmitSend(t, StRegister)

\* Lines 281-284 and 375: the receipt's hash becomes tx_hash.
RegisterWait(t) ==
    SubmitWait(t, StRegister, "Contract transaction failed", [loc[t] EXCEPT !.rtx = TRUE])

\* ------------------------------------------------------------- post_model

\* StartRun without the first update_status call.
StartRunNoStatus(t) ==
    /\ ~InFlight(t)
    /\ TotalRuns < MaxRuns
    /\ gen' = [gen EXCEPT ![t] = @ + 1]
    /\ loc' = [loc EXCEPT ![t] = NoLocals]
    /\ trace' = [trace EXCEPT ![t] = <<>>]
    /\ LET made == ensure_dir(TaskBase(t)) IN
       /\ dirs' = made.dirs
       /\ IF made.ok
          THEN /\ pc' = [pc EXCEPT ![t] = [st |-> 1, ph |-> "op"]]
               /\ result' = [result EXCEPT ![t] = NoResult]
          ELSE /\ pc' = pc
               /\ result' = [result EXCEPT ![t] =
                               [NoResult EXCEPT !.code = 500, !.error = UnhandledMessage]]
    /\ resp' = NoResp
    /\ UNCHANGED <<cfg, call, status, written, files, chain>>

\* POST /models with a task_id and a model file: run_pipeline starts with
\* task_paths (line 291). Were the directory refused, the handler's own
\* task_paths (line 430) would be refused as well and the exception would
\* leave post_model.
StartRun(t) ==
    /\ ~InFlight(t)
    /\ TotalRuns < MaxRuns
    /\ gen' = [gen EXCEPT ![t] = @ + 1]
    /\ loc' = [loc EXCEPT ![t] = NoLocals]
    /\ trace' = [trace EXCEPT ![t] = <<>>]
    /\ LET made == ensure_dir(TaskBase(t)) IN
       /\ dirs' = made.dirs
       /\ IF made.ok
          THEN /\ pc' = [pc EXCEPT ![t] = [st |-> 1, ph |-> "open"]]
               /\ result' = [result EXCEPT ![t] = NoResult]
          ELSE /\ pc' = pc
               /\ result' = [result EXCEPT ![t] =
                               [NoResult EXCEPT !.code = 500, !.error = UnhandledMessage]]
    /\ resp' = NoResp
    /\ UNCHANGED <<cfg, call, status, written, files, chain>>

\* PostModel that records the rejection in the task's status file.
PostModelRecordingRejection(task_id, has_model, admitted) ==
    IF task_id = "" \/ ~has_model
    THEN /\ resp' = [NoResp EXCEPT !.kind = "post", !.task_id = task_id, !.code = 400]
         /\ status' = [t \in TaskIds |->
                         IF t = task_id THEN StatusRecord(StFailed, NoLocals) ELSE status[t]]
         /\ UNCHANGED <<cfg, dirs, call, pc, loc, written, files, gen, result, trace, chain>>
    ELSE admitted /\ StartRun(task_id)

\* post_model, lines 417-428: a request without task_id or without a model
\* file is answered 400 before anything else happens; otherwise, when the
\* server admits the request, run_pipeline starts.
PostModel(task_id, has_model, admitted) ==
    IF task_id = "" \/ ~has_model
    THEN /\ resp' = [NoResp EXCEPT !.kind = "post", !.task_id = task_id, !.code = 400]
         /\ UNCHANGED <<cfg, dirs, call, pc, loc, status, written, files, gen, result, trace, chain>>
    ELSE admitted /\ StartRun(task_id)

\* One run at a time (the usage the status ledger is documented for).
post_model(task_id, has_model) ==
    PostModel(task_id, has_model, \A u \in TaskIds : ~InFlight(u))

\* Requests of different tasks served concurrently.
post_model_concurrent(task_id, has_model) == PostModel(task_id, has_model, TRUE)

\* Lines 382-393 and 434 (201), or line 432 (500).
Return(t) ==
    /\ pc[t].ph = "ret"
    /\ result' = [result EXCEPT ![t] =
                    IF pc[t].st = StComplete
                    THEN [code |-> 201, verifier_contract |-> loc[t].vaddr,
                          verifier_deploy_tx |-> loc[t].dtx, tx_hash |-> loc[t].rtx,
                          error |-> ""]
                    ELSE [code |-> 500, verifier_contract |-> FALSE,
                          verifier_deploy_tx |-> FALSE, tx_hash |-> FALSE,
                          error |-> loc[t].msg]]
    /\ pc' = [pc EXCEPT ![t] = Idle]
    /\ resp' = NoResp
    /\ UNCHANGED <<cfg, dirs, call, loc, status, written, files, gen, trace, chain>>

\* A request whose task_paths call raised.
Refused(kind, task_id) ==
    [NoResp EXCEPT !.kind = kind, !.task_id = task_id, !.code = 500,
                   !.error = "FileExistsError"]

\* GET /models/<task_id>/status: json.load of an empty file raises (500).
get_status(task_id) ==
    /\ LET made == ensure_dir(TaskBase(task_id))
           f == FileAt(task_paths(task_id)["status"]) IN
       /\ dirs' = made.dirs
       /\ resp' = IF ~made.ok THEN Refused("status", task_id)
                  ELSE [kind |-> "status", task_id |-> task_id,
                        code |-> IF ~f.isfile THEN 404
                                 ELSE IF f.body.kind = "full" THEN 200 ELSE 500,
                        body |-> IF f.isfile /\ f.body.kind = "full" THEN f.body ELSE NoFile,
                        path |-> f.real, data |-> 0,
                        error |-> IF f.isfile /\ f.body.kind # "full"
                                  THEN "JSONDecodeError" ELSE ""]
    /\ UNCHANGED <<cfg, call, pc, loc, status, written, files, gen, result, trace, chain>>

\* Artifact names a request may carry.
ArtifactNames ==
    {<<FileName(r)>> : r \in {"model", "witness", "proof", "verifier_sol", "status"}}
        \cup {<<"..">>, <<"..", "t2", "status.json">>, <<"..", "..", ".env">>, EnvFile}

\* GET /models/<task_id>/artifacts/<artifact>.
get_artifact(task_id, artifact) ==
    /\ LET made == ensure_dir(TaskBase(task_id))
           candidate == PathJoin(task_paths(task_id)["base"], artifact)
           f == FileAt(candidate) IN
       /\ dirs' = made.dirs
       /\ resp' = IF ~made.ok THEN Refused("artifact", task_id)
                  ELSE [kind |-> "artifact", task_id |-> task_id,
                        code |-> IF f.isfile THEN 200 ELSE 404,
                        body |-> IF f.isfile THEN f.body ELSE NoFile,
                        path |-> f.real, data |-> IF f.isfile THEN f.data ELSE 0,
                        error |-> ""]
    /\ UNCHANGED <<cfg, call, pc, loc, status, written, files, gen, result, trace, chain>>

\* ------------------------------------------------------- specifications

Pipeline(t) ==
    \/ StatusOpen(t)
    \/ StatusDump(t)
    \/ StageOp(t)
    \/ DeployBuild(t)
    \/ DeploySend(t)
    \/ DeployWait(t)
    \/ RegisterBuild(t)
    \/ RegisterSend(t)
    \/ RegisterWait(t)
    \/ Return(t)

\* The task one client submits, and resubmits after its run has returned.
SeqTasks == {"t1"}

Next ==
    \/ \E t \in SeqTasks \cup {""}, m \in BOOLEAN : post_model(t, m)
    \/ \E t \in TaskIds : Pipeline(t)

Spec == Init /\ [][Next]_vars

\* The same runs, observed by the client's status and artifact queries at any
\* moment.
NextRead ==
    \/ Next
    \/ \E t \in SeqTasks : get_status(t)
    \/ \E t \in SeqTasks, a \in ArtifactNames : get_artifact(t, a)

\* The queries do not depend on the configuration: one configuration, chain
\* integration fully configured.
InitRead == InitWith({c \in Configs : c.provider /\ c.key /\ c.registry})

SpecRead == InitRead /\ [][NextRead]_vars

\* The runs of one client and status queries for any task, each of which
\* resolves the task's paths anew.
NextDirs ==
    \/ Next
    \/ \E t \in TaskIds : get_status(t)

SpecDirs == InitRead /\ [][NextDirs]_vars

\* Concurrent runs of different tasks, with chain integration configured.
InitConc == InitWith({c \in Configs : c.provider /\ c.key})

NextConc ==
    \/ \E t \in TaskIds \cup {""}, m \in BOOLEAN : post_model_concurrent(t, m)
    \/ \E t \in TaskIds : Pipeline(t)

SpecConc == InitConc /\ [][NextConc]_vars

\* One run at a time, on a file system whose writes can fail.
NextIO ==
    \/ Next
    \/ \E t \in TaskIds : StatusWriteFails(t)

SpecIO == Init /\ [][NextIO]_vars

\* ------------------------------------------- functions called on their own

\* A call that has not been made yet.
Pending(fn, arg) == [fn |-> fn, arg |-> arg, done |-> FALSE, ret |-> <<>>]

\* task_paths for two task ids, one call after the other.
call_task_paths ==
    /\ call.fn = "task_paths"
    /\ ~call.done
    /\ LET first == ensure_dir(TaskBase(call.arg[1]))
           second == ensure_dir(TaskBase(call.arg[2])) IN
       /\ dirs' = first.dirs \cup second.dirs
       /\ call' = [call EXCEPT !.done = TRUE,
                               !.ret = IF first.ok /\ second.ok
                                       THEN <<task_paths(call.arg[1]), task_paths(call.arg[2])>>
                                       ELSE <<>>]
    /\ UNCHANGED <<cfg, pc, loc, status, written, files, gen, result, trace, chain, resp>>

\* Optional values: None, or a value.
None == [some |-> FALSE, v |-> 0]

Some(x) == [some |-> TRUE, v |-> x]

\* Floats are counted in units of one ten-millionth, so that the products of
\* line 253 that fall between two integers are represented: this is 1.0.
ONE == 10000000

\* The factor of line 253.
MILLION == 1000000

\* round(n / d) of Python 3 for d > 0: to the nearest integer, a tie to the
\* even one.
RoundHalfEven(n, d) ==
    LET q == n \div d
        r == n % d IN
    IF 2 * r < d THEN q
    ELSE IF 2 * r > d THEN q + 1
    ELSE IF q % 2 = 0 THEN q ELSE q + 1

\* Line 253: int(round((accuracy or 0.0) * 1_000_000)). The product of a
\* units of 1/ONE with MILLION is a / (ONE / MILLION).
accuracy_scaled(accuracy) ==
    LET a == IF ~accuracy.some \/ accuracy.v = 0 THEN 0 ELSE accuracy.v IN
    RoundHalfEven(a, ONE \div MILLION)

call_accuracy_scaled ==
    /\ call.fn = "accuracy_scaled"
    /\ ~call.done
    /\ call' = [call EXCEPT !.done = TRUE, !.ret = accuracy_scaled(call.arg)]
    /\ UNCHANGED <<cfg, pc, loc, status, written, files, gen, result, trace, chain, resp, dirs>>

\* Accuracy arguments: absent, multiples of a tenth from -MaxTenths/10 to
\* MaxTenths/10, and the values within MaxFine ten-millionths of 0 and of 1.
MaxTenths == 15
MaxFine == 15

AccuracySamples ==
    {None}
        \cup {Some(k * (ONE \div 10)) : k \in -MaxTenths .. MaxTenths}
        \cup {Some(k) : k \in -MaxFine .. MaxFine}
        \cup {Some(ONE + k) : k \in -MaxFine .. MaxFine}

\* Labels are named by their rank in Python's order of the label values.
MaxLabel == 3
Labels == 1 .. MaxLabel

\* sorted(values): ascending.
RECURSIVE sorted(_)
sorted(values) ==
    IF values = {} THEN <<>>
    ELSE LET least == CHOOSE x \in values : \A y \in values : x <= y IN
         <<least>> \o sorted(values \ {least})

\* build_label_index_map, lines 81-84, on the label column of the dataframe:
\* unique, sorted, enumerate from 0.
build_label_index_map(column) ==
    LET labels == sorted({column[i] : i \in DOMAIN column}) IN
    [label \in {labels[i] : i \in DOMAIN labels} |->
        (CHOOSE idx \in DOMAIN labels : labels[idx] = label) - 1]

\* dict.get, line 300.
Get(map, key) == IF key \in DOMAIN map THEN Some(map[key]) ELSE None

\* The mirror image of np.argmax: the first position of the least score.
argmin(scores) ==
    (CHOOSE i \in DOMAIN scores :
        /\ \A j \in DOMAIN scores : scores[j] >= scores[i]
        /\ \A j \in 1 .. i - 1 : scores[j] > scores[i]) - 1

\* np.argmax, line 214: the first position of the greatest score, from 0.
argmax(scores) ==
    (CHOOSE i \in DOMAIN scores :
        /\ \A j \in DOMAIN scores : scores[j] <= scores[i]
        /\ \A j \in 1 .. i - 1 : scores[j] < scores[i]) - 1

\* extract_prediction, lines 207-216, on the rescaled_outputs of the witness.
extract_prediction(outputs) ==
    IF outputs = <<>> THEN [scores |-> <<>>, predicted_index |-> None]
    ELSE [scores |-> outputs[1], predicted_index |-> Some(argmax(outputs[1]))]

\* Lines 368-371.
Accuracy(target_index, predicted_index) ==
    IF target_index.some /\ predicted_index.some
    THEN Some(IF predicted_index.v = target_index.v THEN ONE ELSE 0)
    ELSE None

\* Lines 299-300 and 367-371 of run_pipeline_async, for a label column, the
\* label of the sampled row and the outputs of the witness.
call_accuracy ==
    /\ call.fn = "accuracy"
    /\ ~call.done
    /\ LET label_index_map == build_label_index_map(call.arg.column)
           target_index == Get(label_index_map, call.arg.target_label)
           prediction == extract_prediction(call.arg.outputs) IN
       call' = [call EXCEPT !.done = TRUE,
                            !.ret = [label_index_map |-> label_index_map,
                                     target_index |-> target_index,
                                     prediction |-> prediction,
                                     accuracy |-> Accuracy(target_index,
                                                           prediction.predicted_index)]]
    /\ UNCHANGED <<cfg, pc, loc, status, written, files, gen, result, trace, chain, resp, dirs>>

\* Label columns of 1 .. MaxRows rows, and output vectors of 1 .. MaxClasses
\* scores from 0 .. MaxScore; a witness carries no output vector, one, or a
\* second one after it (here the first one reversed).
MaxRows == 2
MaxClasses == 2
MaxScore == 1

Columns == UNION {[1 .. n -> Labels] : n \in 1 .. MaxRows}

ScoreVectors == UNION {[1 .. n -> 0 .. MaxScore] : n \in 1 .. MaxClasses}

Reversed(v) == [i \in 1 .. Len(v) |-> v[Len(v) + 1 - i]]

Outputs == {<<>>} \cup {<<v>> : v \in ScoreVectors} \cup {<<v, Reversed(v)>> : v \in ScoreVectors}

CallInputs ==
    {Pending("task_paths", <<a, b>>) : a \in RequestIds, b \in RequestIds}
        \cup {Pending("accuracy", [column |-> c, target_label |-> l, outputs |-> o]) :
                 c \in Columns, l \in Labels, o \in Outputs}
        \cup {Pending("accuracy_scaled", a) : a \in AccuracySamples}

InitCalls == InitSystem({c \in Configs : c.provider /\ c.key /\ c.registry}) /\ call \in CallInputs

NextCalls ==
    \/ call_task_paths
    \/ call_accuracy_scaled
    \/ call_accuracy

SpecCalls == InitCalls /\ [][NextCalls]_vars

\* ------------------------------------------------------------ properties

Returned(t) == gen[t] > 0 /\ ~InFlight(t)

Events(t, kind) == {trace[t][i] : i \in {j \in 1 .. Len(trace[t]) : trace[t][j].kind = kind}}

\* The status writes and stage operations of the latest run, in order.
Stamps(t) == SelectSeq(trace[t], LAMBDA e : e.kind # "tx")

StageOf(name) == CHOOSE i \in 1 .. Len(Stages) : Stages[i].name = name

\* C1: once a run has returned to its caller, the task's status record has
\* step "complete" or "failed", never an intermediate step.
C1_FinalStatus ==
    \A t \in TaskIds :
        Returned(t) => /\ status[t].kind = "full"
                       /\ status[t].step \in {"complete", "failed"}
                       /\ (status[t].step = "complete") = (result[t].code = 201)

\* A run that failed in a proving stage after the first has returned.
C1_Witness ==
    \E t \in TaskIds :
        /\ Returned(t)
        /\ result[t].code = 500
        /\ Event("op", "compile_circuit", "raised") \in Events(t, "op")

\* C2: after a stage operation raised, the run invokes no further stage
\* operation (no later stage, no second attempt), writes no artifact, and its
\* status becomes "failed" with the error's message as a non-empty string.
C2_AbortAndReport ==
    \A t \in TaskIds :
        /\ \A i \in 1 .. Len(trace[t]) :
              (trace[t][i].kind = "op" /\ trace[t][i].msg = "raised")
                  => \A j \in (i + 1) .. Len(trace[t]) : trace[t][j].kind = "status"
        /\ (Returned(t) /\ loc[t].raised)
              => /\ status[t].step = "failed"
                 /\ status[t].hasError
                 /\ status[t].error = loc[t].msg
                 /\ status[t].error # ""

\* The part of C2 that does not depend on the text of the exception.
C2_Abort ==
    \A t \in TaskIds :
        /\ \A i \in 1 .. Len(trace[t]) :
              (trace[t][i].kind = "op" /\ trace[t][i].msg = "raised")
                  => /\ \A j \in (i + 1) .. Len(trace[t]) : trace[t][j].kind = "status"
                     /\ \A r \in ArtifactRoles :
                           (files[t][r] = gen[t])
                               => \E k \in 1 .. StageOf(trace[t][i].name) - 1 :
                                     r \in Stages[k].outs
        /\ (Returned(t) /\ loc[t].raised)
              => /\ status[t].step = "failed"
                 /\ status[t].hasError
                 /\ status[t].error = loc[t].msg

\* Messages of the code that say a stage was skipped.
SkipMessages == {SkipRegisterMessage}

SkipRecorded(t, step) ==
    \E e \in Events(t, "status") : e.name = step /\ e.msg \in SkipMessages

\* C3: a run that skipped the deploy-verifier stage or the register-model
\* stage because of configuration has written a status record for that stage
\* whose message says it was skipped.
C3_SkipRecorded ==
    \A t \in TaskIds :
        (Returned(t) /\ result[t].code = 201)
            => /\ ~ChainEnabled => SkipRecorded(t, "verifier_deploy")
               /\ ~result[t].tx_hash => SkipRecorded(t, "register")

\* C4: with the endpoint or the key unset, a run whose proving stages all
\* returned broadcasts nothing, does not fail, and returns "complete" with
\* verifier_contract, verifier_deploy_tx and tx_hash absent.
C4_ChainDisabled ==
    \A t \in TaskIds :
        (~ChainEnabled /\ Event("op", "create_evm_verifier", "returned") \in Events(t, "op"))
            => /\ Events(t, "tx") = {}
               /\ chain = [count |-> 0, pending |-> {}, contracts |-> {}]
               /\ ~loc[t].raised
               /\ Returned(t) =>
                     /\ result[t] = [NoResult EXCEPT !.code = 201]
                     /\ status[t].step = "complete"

\* The key alone is unset and the run has returned 201.
C4_Witness ==
    /\ cfg.provider /\ ~cfg.key
    /\ \E t \in TaskIds : Returned(t) /\ result[t].code = 201

\* C5: when deployment succeeded and no registry address is configured, no
\* registration transaction is built or broadcast; the run returns "complete"
\* with tx_hash absent and verifier_contract and verifier_deploy_tx present.
C5_RegistrySkipped ==
    \A t \in TaskIds :
        (~cfg.registry /\ loc[t].vaddr)
            => /\ Event("tx", "register", "broadcast") \notin Events(t, "tx")
               /\ \A p \in chain.pending : p.kind # "register"
               /\ ~(pc[t].st = StRegister /\ pc[t].ph \in {"send", "wait"})
               /\ ~loc[t].raised
               /\ Returned(t) =>
                     /\ result[t] = [NoResult EXCEPT !.code = 201, !.verifier_contract = TRUE,
                                                     !.verifier_deploy_tx = TRUE]
                     /\ status[t].step = "complete"

C5_Witness ==
    /\ ~cfg.registry
    /\ \E t \in TaskIds :
          Returned(t) /\ result[t].code = 201 /\ result[t].verifier_deploy_tx

StepOf(name) == Stages[StageOf(name)].step

\* C6 as stated: the ledger is written with the stage's name before the stage
\* operation is invoked and again after it has returned.
C6_BeforeAndAfter ==
    \A t \in TaskIds :
        LET s == Stamps(t) IN
        \A i \in 1 .. Len(s) :
            s[i].kind = "op"
                => /\ i > 1
                   /\ s[i - 1].kind = "status"
                   /\ s[i - 1].name = StepOf(s[i].name)
                   /\ (s[i].msg = "returned" /\ i < Len(s))
                         => (s[i + 1].kind = "status" /\ s[i + 1].name = StepOf(s[i].name))

\* C6 as amended: the ledger is written with the stage's step and message
\* immediately before the stage operation is invoked; after the operation has
\* returned the next write is another record (the next stage's, or
\* "complete"), not a second record of the returned stage.
C6_StatusBefore ==
    \A t \in TaskIds :
        LET s == Stamps(t) IN
        \A i \in 1 .. Len(s) :
            s[i].kind = "op"
                => /\ i > 1
                   /\ s[i - 1] = Event("status", StepOf(s[i].name),
                                       Stages[StageOf(s[i].name)].message)
                   /\ (s[i].msg = "returned" /\ i < Len(s))
                         => (s[i + 1].kind = "status" /\ s[i + 1] # s[i - 1])

\* The first stage has returned and the second stage's status is written.
C6_Witness ==
    \E t \in TaskIds :
        LET s == Stamps(t) IN
        /\ Len(s) >= 3
        /\ s[2] = Event("op", "store-model", "returned")
        /\ s[3].kind = "status"

\* C7: a status query during a run returns the complete record of the most
\* recent update_status call; it never fails on a file that is being written.
C7_QueryLatest ==
    resp.kind = "status"
        => /\ resp.code # 500
           /\ resp.code = 200 => resp.body = written[resp.task_id]
           /\ resp.code = 404 => written[resp.task_id] = NoFile

\* The stages of the latest run of t that were invoked.
Invoked(t) == {StageOf(e.name) : e \in Events(t, "op")}

\* C8: after a run that failed before reaching a stage, an artifact query for
\* a file of that stage returns not-found.
C8_NoStaleArtifact ==
    \A t \in TaskIds, r \in ArtifactRoles :
        (/\ resp.kind = "artifact"
         /\ resp.path = task_paths(t)[r]
         /\ Returned(t)
         /\ result[t].code = 500
         /\ \A k \in Invoked(t) : r \notin Stages[k].outs)
            => resp.code = 404

\* C9: the file an artifact query reads lies inside the base directory of the
\* task it names.
C9_InsideTaskBase ==
    (resp.kind = "artifact" /\ resp.code = 200)
        => /\ IsPrefix(RealPath(task_paths(resp.task_id)["base"]), resp.path)
           /\ resp.path # RealPath(task_paths(resp.task_id)["base"])

Submitting(t) == pc[t].ph \in {"send", "wait"}

\* C10: concurrent runs of different tasks do not interfere: no two
\* submissions in flight carry the same nonce, and a run in which no library
\* call raised and no receipt reported failure ends as it would alone, with 201.
C10_NoInterference ==
    /\ \A t, u \in TaskIds :
          (t # u /\ Submitting(t) /\ Submitting(u)) => loc[t].nonce # loc[u].nonce
    /\ \A t \in TaskIds :
          (Returned(t) /\ ~loc[t].envFault) => result[t].code = 201

\* The chain steps of kind k in the latest run of t, in order.
TxSteps(t, k) ==
    LET txs == SelectSeq(trace[t], LAMBDA e : e.kind = "tx" /\ e.name = k) IN
    [i \in 1 .. Len(txs) |-> txs[i].msg]

IsPrefixOf(a, b) == Len(a) <= Len(b) /\ \A i \in 1 .. Len(a) : a[i] = b[i]

\* C11: a submission queries the account's transaction count as its nonce,
\* signs and broadcasts, then waits for the receipt, in this order and each
\* once; a receipt that is not a success raises, and the run then broadcasts
\* nothing more, so a run broadcasts at most one deployment and one
\* registration.
C11_SubmitOnce ==
    \A t \in TaskIds :
        LET all == SelectSeq(trace[t], LAMBDA e : e.kind = "tx") IN
        /\ \A k \in {"deploy", "register"} :
              \/ IsPrefixOf(TxSteps(t, k), <<"nonce", "broadcast", "receipt ok">>)
              \/ IsPrefixOf(TxSteps(t, k), <<"nonce", "broadcast", "receipt failed">>)
              \/ TxSteps(t, k) = <<"nonce", "refused">>
        /\ \A i \in 1 .. Len(all) :
              all[i].msg \in {"receipt failed", "refused"}
                  => (i = Len(all) /\ loc[t].raised)
        /\ Submitting(t) => loc[t].nonce = chain.count

\* A deployment whose receipt reported failure, after the run has returned.
C11_Witness ==
    \E t \in TaskIds :
        /\ Returned(t)
        /\ Event("tx", "deploy", "receipt failed") \in Events(t, "tx")
        /\ result[t].error = "Verifier deployment failed"

\* C12: a registration is built and broadcast only after the deployment of
\* the same run was confirmed by a success receipt, and only with the
\* registry address configured; the verifier address it carries is the
\* contract address of that receipt.
C12_RegisterAfterDeploy ==
    /\ \A t \in TaskIds :
          TxSteps(t, "register") # <<>> =>
              /\ cfg.registry
              /\ TxSteps(t, "deploy") = <<"nonce", "broadcast", "receipt ok">>
              /\ [addr |-> loc[t].addr, task |-> t] \in chain.contracts
    /\ \A tx \in chain.pending :
          tx.kind = "register" =>
              /\ tx.verifier = loc[tx.task].addr
              /\ [addr |-> tx.verifier, task |-> tx.task] \in chain.contracts
    /\ \A c \in chain.contracts : c.addr # 0

\* A registration in the mempool, carrying the address of the run's contract.
C12_Witness ==
    \E tx \in chain.pending :
        /\ tx.kind = "register"
        /\ pc[tx.task] = [st |-> StRegister, ph |-> "wait"]
        /\ tx.verifier = loc[tx.task].addr

\* C13: a POST /models without a task id or without a model is rejected at
\* once: no run starts, no stage operation is performed, and no task's status
\* file is written or changed.
C13_RejectedUntouched ==
    [][(resp'.kind = "post" /\ resp'.code = 400)
          => UNCHANGED <<pc, loc, status, written, files, gen, result, trace, chain, dirs>>]_vars

\* A request for a task without its model, rejected while the task has a
\* status file.
C13_Witness ==
    /\ resp.kind = "post"
    /\ resp.code = 400
    /\ resp.task_id \in TaskIds
    /\ status[resp.task_id].kind = "full"

\* C14: when a stage operation of a run raised, the error the caller of the
\* run received is that failure, also when recording it in the status file
\* failed with an I/O error.
C14_PrimaryReported ==
    \A t \in TaskIds :
        (Returned(t) /\ loc[t].raised /\ loc[t].msg # IOMessage) =>
            (result[t].code = 500 /\ result[t].error = loc[t].msg)

\* C15: resolving a task's paths again, whatever happened since the last
\* time, is not refused because the directory exists, leaves the status file
\* and every artifact as they were, keeps the directory, and gives the same
\* path for the same role.
C15_ResolveAgain ==
    [][\A t \in TaskIds :
          (\/ resp'.kind = "status" /\ resp'.task_id = t
           \/ gen'[t] # gen[t])
          => /\ resp'.error # "FileExistsError"
             /\ gen'[t] # gen[t] => InFlight(t)'
             /\ status' = status
             /\ files' = files
             /\ dirs \subseteq dirs'
             /\ RealPath(TaskBase(t)) \in dirs'
             /\ resp'.kind = "status" => resp'.path = APP_ROOT \o <<t, "status.json">>]_vars

\* A status query answered during the second run of a task, whose directory
\* and model file the first run had created.
C15_Witness ==
    /\ resp.kind = "status"
    /\ resp.code = 200
    /\ gen[resp.task_id] = 2
    /\ files[resp.task_id]["model"] = 1
    /\ RealPath(TaskBase(resp.task_id)) \in dirs

\* C16: no artifact role of one task id resolves to the file location of any
\* role of a different task id, whatever the ids contain.
C16_NoCollision ==
    (call.fn = "task_paths" /\ call.done /\ call.ret # <<>> /\ call.arg[1] # call.arg[2])
        => \A r1 \in Roles, r2 \in Roles :
              RealPath(call.ret[1][r1]) # RealPath(call.ret[2][r2])

C17_ScaledWithinUnit ==
    (call.fn = "accuracy_scaled" /\ call.done)
        => /\ call.arg = Some(ONE) => call.ret = MILLION
           /\ call.arg = Some(0) => call.ret = 0
           /\ ~call.arg.some => call.ret = 0
           /\ (call.arg.some /\ call.arg.v \in 0 .. ONE) => call.ret \in 0 .. MILLION

\* C18: the label map numbers the distinct labels 0 .. n-1 in ascending
\* order; the predicted index is the position of the greatest score of the
\* first output vector; the accuracy is 1.0 when predicted and target index
\* agree, 0.0 when they differ, and unset when there is no output vector or
\* the label is not in the map.
C18_AccuracyDerived ==
    (call.fn = "accuracy" /\ call.done) =>
        LET column == call.arg.column
            distinct == {column[i] : i \in DOMAIN column}
            map == call.ret.label_index_map
            outputs == call.arg.outputs
            predicted == call.ret.prediction.predicted_index
            available == outputs # <<>> /\ call.arg.target_label \in distinct IN
        /\ DOMAIN map = distinct
        /\ {map[l] : l \in distinct} = 0 .. Cardinality(distinct) - 1
        /\ \A l1 \in distinct, l2 \in distinct : l1 < l2 => map[l1] < map[l2]
        /\ predicted.some = (outputs # <<>>)
        /\ outputs # <<>> =>
              /\ predicted.v + 1 \in DOMAIN outputs[1]
              /\ \A j \in DOMAIN outputs[1] : outputs[1][j] <= outputs[1][predicted.v + 1]
        /\ call.ret.accuracy.some = available
        /\ available =>
              call.ret.accuracy.v =
                  IF predicted.v = map[call.arg.target_label] THEN ONE ELSE 0

\* The scenario of two labels: the sampled row carries the greater label,
\* index 1; the witness's first vector peaks at index 1 and a second vector
\* peaks elsewhere; the accuracy is 1.0.
C18_Witness ==
    /\ call.fn = "accuracy"
    /\ call.done
    /\ call.arg.column = <<2, 1>>
    /\ call.arg.target_label = 2
    /\ call.arg.outputs = <<<<0, 1>>, <<1, 0>>>>
    /\ call.ret.label_index_map = [l \in {1, 2} |-> l - 1]
    /\ call.ret.accuracy = Some(ONE)

\* The step values written to the status file in the latest run of t.
Steps(t) ==
    LET w == SelectSeq(trace[t], LAMBDA e : e.kind = "status") IN
    [i \in 1 .. Len(w) |-> w[i].name]

StepOrder ==
    <<"started", "input", "settings", "calibration", "calibration", "compile", "srs",
      "witness", "setup", "prove", "verify", "verifier">>
        \o (IF ChainEnabled THEN <<"verifier_deploy">> ELSE <<>>)
        \o <<"register", "complete">>

\* C19: the steps written in a run are a prefix of the stage order, followed
\* by at most one "failed" and by nothing after "complete" or "failed"; a
\* stage operation is invoked right after its own status was written, and
\* after every operation invoked before it has returned.
C19_StageOrder ==
    \A t \in TaskIds :
        LET steps == Steps(t)
            s == Stamps(t)
            n == Len(steps) IN
        /\ \/ IsPrefixOf(steps, StepOrder)
           \/ /\ steps[n] = "failed"
              /\ IsPrefixOf(SubSeq(steps, 1, n - 1), StepOrder)
              /\ n - 1 < Len(StepOrder)
        /\ \A i \in 1 .. Len(s) :
              s[i].kind = "op"
                  => /\ i > 1
                     /\ s[i - 1] = Event("status", StepOf(s[i].name), s[i - 1].msg)
                     /\ \A j \in 1 .. i - 1 : s[j].kind = "op" => s[j].msg = "returned"

\* A run that failed in the verify stage, after it has returned.
C19_Witness ==
    \E t \in TaskIds :
        /\ Returned(t)
        /\ Steps(t) = SubSeq(StepOrder, 1, 11) \o <<"failed">>

\* C20: a run reaches the deployment, the registration or the "complete"
\* record only when ezkl.verify returned true for its proof.
C20_VerifiedOnly ==
    \A t \in TaskIds :
        (\/ Events(t, "tx") # {}
         \/ \E e \in Events(t, "status") : e.name \in {"verifier_deploy", "register", "complete"})
            => loc[t].verification = "true"

====
